---- MODULE Spec2Model ----
(***************************************************************************)
(* A model of the surface-wave dispersion notebook                         *)
(* (src/SurfaceWaveDispersion.ipynb): the wavelet arrival picker, the      *)
(* per-period filtering loops, the cross-correlation and the lag filter.   *)
(*                                                                         *)
(* Times, lags and distances are integers (a fixed small unit each);       *)
(* numpy arrays are 1-based sequences, so a Python index k is k + 1 here.  *)
(***************************************************************************)
EXTENDS Integers, Sequences, FiniteSets, TLC

\* ------------------------------------------------------------- bounds
NSamples == 3       \* samples of a trace / of the time axis
MaxAmp == 1         \* sample values and power values range over 0..MaxAmp
MaxDt == 3          \* the sample interval dt ranges over 1..MaxDt

NPeriods == 2       \* length of the period set myPeriods
MaxPeriod == 4      \* periods range over 1..MaxPeriod sample intervals
MaxDelay == 1       \* st2 is st delayed by 1..MaxDelay samples
nsamples == 2       \* half width of the lag window (1000 in the notebook)

\* ------------------------------------------------------------- program constants
Vmax == 7               \* Vmax = 7.0
x_envelope == 15        \* band 0.85/T .. 1.15/T, in hundredths
x_filter == 25          \* x_filter = 0.25, in hundredths
sub_octaves == 12       \* dj = 1 / 12.0, as 1/dj
octaves == 8            \* J = 8.0 / dj

VARIABLES
    pc,                     \* the cell (or loop) the run is at
    dt,                     \* st[iZRT].stats.delta
    ti,                     \* st[iZRT].times(reftime=t0)
    raised,                 \* the exception that ended the run, or "none"
    \* ---- pickArrivalWavelet
    power, tmin, tmax,      \* its arguments
    idmaxs,                 \* its local idmaxs
    pickedArrivalWavelet,   \* its result
    \* ---- the filtering loops
    traces,                 \* the data of the objects st, st2, st_temp, st_temp2
    inputs,                 \* history: the data of st and st2 as first generated
    myPeriods,              \* the period set (myPeriods, myPeriods2)
    todo,                   \* the periods the running loop has not reached yet
    failedAt,               \* <<loop, period>> of the filter call that raised, or <<>>
    warned,                 \* the periods whose filter issued a warning
    pickedArrival,          \* envelope picking loop: np.zeros((nper,))
    pickedArrivalAligned,   \* alignment loop: columns 1 and 2 of np.zeros((nper, 3))
    cc_data,                \* cross-correlation array, one row per period
    \* ---- lag filtering
    dist_km_src12,          \* inter-station distance D
    atshift,                \* the lag axis
    V_phase,                \* dist_km_src12 / atshift, as pairs <<D, lag>>
    phase_vel,              \* np.zeros_like(myPeriods2)
    \* ---- correlate, both ways round
    cc,                     \* [ab, ba]: correlate(st2, st), correlate(st, st2)
    \* ---- compute_wavelet_power_spectrum
    periodsWT,              \* its result period
    wave                    \* its result wave

pickVars == <<power, tmin, tmax, idmaxs, pickedArrivalWavelet>>
loopVars == <<traces, inputs, myPeriods, todo, failedAt, warned, pickedArrival,
              pickedArrivalAligned, cc_data>>
lagVars == <<dist_km_src12, atshift, V_phase, phase_vel>>
auxVars == <<cc, periodsWT, wave>>
vars == <<pc, dt, ti, raised, pickVars, loopVars, lagVars, auxVars>>

\* ------------------------------------------------------------- numpy helpers
Abs(x) == IF x < 0 THEN -x ELSE x

Range(s) == {s[k] : k \in DOMAIN s}

\* np.argmin: the first index of the smallest element
ArgMin(s) ==
    CHOOSE k \in DOMAIN s :
        /\ \A j \in DOMAIN s : s[k] <= s[j]
        /\ \A j \in DOMAIN s : j < k => s[j] > s[k]

\* np.argmax: the first index of the largest element
ArgMax(s) ==
    CHOOSE k \in DOMAIN s :
        /\ \A j \in DOMAIN s : s[k] >= s[j]
        /\ \A j \in DOMAIN s : j < k => s[j] < s[k]

\* Trace.times(reftime=t0) of a trace starting at t0: sample k at (k-1)*dt
TimeAxis(n, d) == [k \in 1..n |-> (k - 1) * d]

\* ------------------------------------------------------------- pickArrivalWavelet
\* idtmin = np.argmin(np.abs(ti - tmin)): the sample nearest to t
NearestSample(axis, t) == ArgMin([k \in DOMAIN axis |-> Abs(axis[k] - t)])

SliceIdx_inclusive(idtmin, idtmax) == idtmin .. idtmax

\* the indices of the slice power[:, idtmin:idtmax] (half open)
SliceIdx(idtmin, idtmax) == idtmin .. (idtmax - 1)

\* np.argmax(power[:, idtmin:idtmax], axis=1) + idtmin, for one row
RowArgMax(row, idtmin, idtmax) ==
    ArgMax(SubSeq(row, idtmin, idtmin + Cardinality(SliceIdx(idtmin, idtmax)) - 1))
        + idtmin - 1

\* the whole function: np.argmax of an empty slice raises ValueError
pickArrivalWaveletFn(axis, pw, t1, t2) ==
    LET idtmin == NearestSample(axis, t1)
        idtmax == NearestSample(axis, t2)
    IN  IF SliceIdx(idtmin, idtmax) = {}
        THEN [raised |-> "ValueError", idmaxs |-> <<>>, picked |-> <<>>]
        ELSE LET ids == [i \in DOMAIN pw |-> RowArgMax(pw[i], idtmin, idtmax)]
             IN  [raised |-> "none", idmaxs |-> ids,
                  picked |-> [i \in DOMAIN pw |-> axis[ids[i]]]]

PowerRows == 1 .. 2
WindowTimes(axis) == (axis[1] - 1) .. (axis[Len(axis)] + 2)

\* the variables a specification does not use stay at these values
IdlePick ==
    /\ power = <<>> /\ tmin = 0 /\ tmax = 0
    /\ idmaxs = <<>> /\ pickedArrivalWavelet = <<>>
IdleLoops ==
    /\ traces = <<>> /\ inputs = <<>> /\ myPeriods = <<>> /\ todo = {}
    /\ failedAt = <<>> /\ warned = {} /\ pickedArrival = <<>>
    /\ pickedArrivalAligned = <<>> /\ cc_data = <<>>
IdleLag ==
    /\ dist_km_src12 = 0 /\ atshift = <<>> /\ V_phase = <<>> /\ phase_vel = <<>>
IdleAux ==
    /\ cc = <<>> /\ periodsWT = <<>> /\ wave = <<>>

InitPick ==
    /\ pc = "pick"
    /\ dt = MaxDt
    /\ ti = TimeAxis(NSamples, dt)
    /\ power \in [PowerRows -> [1..NSamples -> 0..MaxAmp]]
    /\ tmin \in WindowTimes(ti)
    /\ tmax \in WindowTimes(ti)
    /\ idmaxs = <<>>
    /\ pickedArrivalWavelet = <<>>
    /\ raised = "none"
    /\ IdleLoops /\ IdleLag /\ IdleAux

PickArrivalWavelet ==
    /\ pc = "pick"
    /\ LET r == pickArrivalWaveletFn(ti, power, tmin, tmax)
       IN  /\ raised' = r.raised
           /\ idmaxs' = r.idmaxs
           /\ pickedArrivalWavelet' = r.picked
           /\ pc' = IF r.raised = "none" THEN "picked" ELSE "failed"
    /\ UNCHANGED <<dt, ti, power, tmin, tmax, loopVars, lagVars, auxVars>>

NextPick == PickArrivalWavelet
SpecPick == InitPick /\ [][NextPick]_vars

\* ------------------------------------------------------------- signal processing (obspy)
\* a sample outside the trace counts as zero
At(x, n) == IF n \in DOMAIN x THEN x[n] ELSE 0

RECURSIVE SumTo(_, _)
SumTo(x, n) == IF n = 0 THEN 0 ELSE SumTo(x, n - 1) + x[n]
Sum(x) == SumTo(x, Len(x))
SumSq(x) == Sum([k \in DOMAIN x |-> x[k] * x[k]])

\* the second receiver sees the first one's signal k samples later
Delayed(x, k) == [n \in DOMAIN x |-> At(x, n - k)]

\* half of the period T, in samples (at least one)
HalfPeriod(T, d) == IF T \div (2 * d) < 1 THEN 1 ELSE T \div (2 * d)

\* A zero-phase three-tap comb standing for the Butterworth response: it passes
\* the period 2h and removes the mean. Only the filter's numbers are abstracted;
\* its corner checks against Nyquist (below) are obspy's.
Comb(x, h) == [n \in DOMAIN x |-> 2 * x[n] - At(x, n - h) - At(x, n + h)]

\* freqmin = (1 - xf)/T above Nyquist 0.5/dt, xf in hundredths
LowAboveNyquist(T, d, xf) == 2 * d * (100 - xf) > 100 * T
\* freqmax = (1 + xf)/T at or above Nyquist
HighAtNyquist(T, d, xf) == 2 * d * (100 + xf) >= 100 * T

Bandpass_noraise(x, T, d, xf) ==
    IF HighAtNyquist(T, d, xf)
    THEN [raised |-> "none", warned |-> TRUE, data |-> Comb(x, 1)]
    ELSE [raised |-> "none", warned |-> FALSE, data |-> Comb(x, HalfPeriod(T, d))]

\* filter("bandpass", freqmin=(1-xf)/T, freqmax=(1+xf)/T, corners=4, zerophase=True)
\* on one trace: a high corner at or above Nyquist warns and applies a high-pass
\* instead, which raises ValueError when the low corner is above Nyquist too
Bandpass(x, T, d, xf) ==
    IF LowAboveNyquist(T, d, xf)
    THEN [raised |-> "ValueError", warned |-> TRUE, data |-> x]
    ELSE IF HighAtNyquist(T, d, xf)
    THEN [raised |-> "none", warned |-> TRUE, data |-> Comb(x, 1)]
    ELSE [raised |-> "none", warned |-> FALSE, data |-> Comb(x, HalfPeriod(T, d))]

\* obspy.signal.filter.envelope, squared: the signal and its quadrature
\* (three-point Hilbert) part
Envelope2(y) ==
    [n \in DOMAIN y |-> y[n] * y[n] + (At(y, n + 1) - At(y, n - 1)) * (At(y, n + 1) - At(y, n - 1))]

\* idmax = np.argmax(data_envelope.data); ti[idmax]
EnvelopePick(y, axis) == axis[ArgMax(Envelope2(y))]

\* x - mean(x), scaled by len(x) to stay in the integers
Demean(x) == [k \in DOMAIN x |-> Len(x) * x[k] - Sum(x)]

\* sum over m of a[m + L] * b[m]
LagProduct(a, b, L) == Sum([m \in DOMAIN b |-> At(a, m + L) * b[m]])

correlate_nodemean_b(a, b, shift) ==
    LET da == Demean(a)
        norm2 == SumSq(da) * SumSq(b)
    IN  [j \in 1 .. (2 * shift + 1) |->
            IF norm2 = 0 THEN <<0, 1>> ELSE <<LagProduct(da, b, j - shift - 1), norm2>>]

\* obspy correlate(a, b, shift) of two traces of equal length (demean=True,
\* normalize="naive"): entry j is the coefficient at lag j - shift - 1, kept as
\* <<numerator, squared norm>>, the coefficient being numerator / sqrt(norm);
\* a zero norm gives zeros.
correlate(a, b, shift) ==
    LET da == Demean(a)
        db == Demean(b)
        norm2 == SumSq(da) * SumSq(db)
    IN  [j \in 1 .. (2 * shift + 1) |->
            IF norm2 = 0 THEN <<0, 1>> ELSE <<LagProduct(da, db, j - shift - 1), norm2>>]

\* ------------------------------------------------------------- the filtering loops
StreamCopy_alias(src, tmp) == src

\* st_temp = st.copy(): the object the name tmp is bound to is a fresh one
StreamCopy(src, tmp) == tmp

\* the store after tmp = src.copy()
Copied(h, src, tmp) == [h EXCEPT ![tmp] = h[src]]

\* tmp = src.copy() already done; tmp.filter("bandpass", ...) filters in place
\* the object tmp is bound to
FilterInPlace(h, src, tmp, T, d, xf) ==
    LET obj == StreamCopy(src, tmp)
        f == Bandpass(h[obj], T, d, xf)
    IN  [traces |-> [h EXCEPT ![obj] = f.data], raised |-> f.raised,
         warned |-> f.warned, data |-> f.data]

\* the body of the envelope picking loop for period T
EnvelopeBody(h, T, d, axis) ==
    LET f == FilterInPlace(Copied(h, "st", "st_temp"), "st", "st_temp", T, d, x_envelope)
    IN  [traces |-> f.traces, raised |-> f.raised, warned |-> f.warned,
         out |-> EnvelopePick(f.data, axis)]

\* the body of the alignment loop for period T: sti in [st, st2] in turn
AlignBody(h, T, d, axis) ==
    LET f1 == FilterInPlace(Copied(h, "st", "st_temp"), "st", "st_temp", T, d, x_envelope)
        f2 == FilterInPlace(Copied(f1.traces, "st2", "st_temp"), "st2", "st_temp", T, d,
                            x_envelope)
    IN  IF f1.raised # "none"
        THEN [traces |-> f1.traces, raised |-> f1.raised, warned |-> f1.warned,
              out |-> <<0, 0>>]
        ELSE [traces |-> f2.traces, raised |-> f2.raised, warned |-> f1.warned \/ f2.warned,
              out |-> <<EnvelopePick(f1.data, axis), EnvelopePick(f2.data, axis)>>]

\* the body of the cross-correlation loop for period T
CorrelateBody(h, T, d, axis) ==
    LET h0 == Copied(Copied(h, "st", "st_temp"), "st2", "st_temp2")
        f1 == FilterInPlace(h0, "st", "st_temp", T, d, x_filter)
        f2 == FilterInPlace(f1.traces, "st2", "st_temp2", T, d, x_filter)
    IN  IF f1.raised # "none"
        THEN [traces |-> f1.traces, raised |-> f1.raised, warned |-> f1.warned,
              out |-> <<>>]
        ELSE [traces |-> f2.traces, raised |-> f2.raised, warned |-> f1.warned \/ f2.warned,
              out |-> correlate(f2.data, f1.data, nsamples)]

AllPeriods == 1 .. NPeriods
Min(S) == CHOOSE m \in S : \A k \in S : m <= k

IsMonotone(s) ==
    \/ \A k \in 1 .. (Len(s) - 1) : s[k] < s[k + 1]
    \/ \A k \in 1 .. (Len(s) - 1) : s[k] > s[k + 1]

\* np.logspace(np.log2(10.0 * dt), np.log2(duration / 15), ...): both ends, hence
\* every period, are multiples p[i] of dt, rising or falling with the trace length
LogspacePeriods(p, d) == [i \in DOMAIN p |-> p[i] * d]

ZeroPicks == [i \in AllPeriods |-> 0]
ZeroAligned == [i \in AllPeriods |-> <<0, 0>>]
ZeroRow == [j \in 1 .. (2 * nsamples + 1) |-> <<0, 1>>]
ZeroCC == [i \in AllPeriods |-> ZeroRow]

InitLoops ==
    /\ pc = "envelope"
    /\ dt \in 1 .. MaxDt
    /\ ti = TimeAxis(NSamples, dt)
    /\ raised = "none"
    /\ \E x \in [1 .. NSamples -> 0 .. MaxAmp] : \E k \in 1 .. MaxDelay :
          /\ inputs = [st |-> x, st2 |-> Delayed(x, k)]
          /\ traces = [st |-> x, st2 |-> Delayed(x, k), st_temp |-> <<>>, st_temp2 |-> <<>>]
    /\ \E p \in {s \in [AllPeriods -> 1 .. MaxPeriod] : IsMonotone(s)} :
          myPeriods = LogspacePeriods(p, dt)
    /\ todo = AllPeriods
    /\ failedAt = <<>>
    /\ warned = {}
    /\ pickedArrival = ZeroPicks
    /\ pickedArrivalAligned = ZeroAligned
    /\ cc_data = ZeroCC
    /\ IdlePick /\ IdleLag /\ IdleAux

\* what every loop does with its body's result b at period i: an exception
\* leaves the loop (nothing catches it), else the loop goes on to the next cell
LoopStep(loop, nextCell, i, b) ==
    /\ pc = loop
    /\ i \in todo
    /\ traces' = b.traces
    /\ warned' = IF b.warned THEN warned \cup {i} ELSE warned
    /\ IF b.raised # "none"
       THEN /\ raised' = b.raised
            /\ failedAt' = <<loop, i>>
            /\ pc' = "aborted"
            /\ todo' = todo
       ELSE /\ raised' = raised
            /\ failedAt' = failedAt
            /\ pc' = IF todo = {i} THEN nextCell ELSE loop
            /\ todo' = IF todo = {i} THEN AllPeriods ELSE todo \ {i}
    /\ UNCHANGED <<dt, ti, inputs, myPeriods, pickVars, lagVars, auxVars>>

EnvelopeIter(i) ==
    LET b == EnvelopeBody(traces, myPeriods[i], dt, ti)
    IN  /\ LoopStep("envelope", "align", i, b)
        /\ pickedArrival' =
              IF b.raised = "none" THEN [pickedArrival EXCEPT ![i] = b.out] ELSE pickedArrival
        /\ UNCHANGED <<pickedArrivalAligned, cc_data>>

AlignIter(i) ==
    LET b == AlignBody(traces, myPeriods[i], dt, ti)
    IN  /\ LoopStep("align", "correlate", i, b)
        /\ pickedArrivalAligned' =
              IF b.raised = "none" THEN [pickedArrivalAligned EXCEPT ![i] = b.out]
              ELSE pickedArrivalAligned
        /\ UNCHANGED <<pickedArrival, cc_data>>

CorrelateIter(i) ==
    LET b == CorrelateBody(traces, myPeriods[i], dt, ti)
    IN  /\ LoopStep("correlate", "done", i, b)
        /\ cc_data' = IF b.raised = "none" THEN [cc_data EXCEPT ![i] = b.out] ELSE cc_data
        /\ UNCHANGED <<pickedArrival, pickedArrivalAligned>>

\* the notebook's loops: enumerate(myPeriods), in index order
EnvelopeLoop == \E i \in todo : i = Min(todo) /\ EnvelopeIter(i)
AlignLoop == \E i \in todo : i = Min(todo) /\ AlignIter(i)
CorrelateLoop == \E i \in todo : i = Min(todo) /\ CorrelateIter(i)

Next == EnvelopeLoop \/ AlignLoop \/ CorrelateLoop

Spec == InitLoops /\ [][Next]_vars

\* the same loops with the periods of each loop taken in any order
EnvelopeAny == \E i \in todo : EnvelopeIter(i)
AlignAny == \E i \in todo : AlignIter(i)
CorrelateAny == \E i \in todo : CorrelateIter(i)

NextAnyOrder == EnvelopeAny \/ AlignAny \/ CorrelateAny

SpecAnyOrder == InitLoops /\ [][NextAnyOrder]_vars

\* ------------------------------------------------------------- the loops as functions
InitialStore ==
    [st |-> inputs.st, st2 |-> inputs.st2, st_temp |-> <<>>, st_temp2 |-> <<>>]

\* each loop run in index order over the periods k..NPeriods from the store h,
\* no filter raising: the store it leaves and the array it fills
RECURSIVE EnvelopeFold(_, _, _)
EnvelopeFold(h, out, k) ==
    IF k > NPeriods THEN [traces |-> h, out |-> out]
    ELSE LET b == EnvelopeBody(h, myPeriods[k], dt, ti)
         IN  EnvelopeFold(b.traces, [out EXCEPT ![k] = b.out], k + 1)
EnvelopeRun(h) == EnvelopeFold(h, ZeroPicks, 1)

RECURSIVE AlignFold(_, _, _)
AlignFold(h, out, k) ==
    IF k > NPeriods THEN [traces |-> h, out |-> out]
    ELSE LET b == AlignBody(h, myPeriods[k], dt, ti)
         IN  AlignFold(b.traces, [out EXCEPT ![k] = b.out], k + 1)
AlignRun(h) == AlignFold(h, ZeroAligned, 1)

RECURSIVE CorrelateFold(_, _, _)
CorrelateFold(h, out, k) ==
    IF k > NPeriods THEN [traces |-> h, out |-> out]
    ELSE LET b == CorrelateBody(h, myPeriods[k], dt, ti)
         IN  CorrelateFold(b.traces, [out EXCEPT ![k] = b.out], k + 1)
CorrelateRun(h) == CorrelateFold(h, ZeroCC, 1)

\* ------------------------------------------------------------- lag filtering
\* atshift = np.linspace(-nsamples, nsamples, 2 * nsamples + 1) * dt
LagAxis_from_zero(n, d) == [j \in 1 .. (2 * n + 1) |-> (j - 1) * d]

LagAxis(n, d) == [j \in 1 .. (2 * n + 1) |-> (j - n - 1) * d]

Admissible_ge(lag, D) == lag * Vmax >= D

\* atshift > dist_km_src12 / Vmax, for one lag (Vmax is positive)
Admissible(lag, D) == lag * Vmax > D

\* np.where(cond)[0]: the indices that satisfy it, ascending
Ascending(S) ==
    [k \in 1 .. Cardinality(S) |-> CHOOSE x \in S : Cardinality({y \in S : y < x}) = k - 1]

\* a[ids]: fancy indexing by an index array
TakeIdx(a, ids) == [k \in DOMAIN ids |-> a[ids[k]]]

\* a float of the model: <<numerator, denominator>>; 0/0 is NaN, the missing value
ZeroFloat == <<0, 1>>
IsMissing(v) == v[1] = 0 /\ v[2] = 0

\* the periods of the correlation array the lag filter is given: none near Nyquist
LagPeriods == [i \in AllPeriods |-> 2 + i]

InitLag ==
    /\ pc = "lagfilter"
    /\ dt \in 1 .. MaxDt
    /\ ti = TimeAxis(NSamples, dt)
    /\ raised = "none"
    /\ myPeriods = LogspacePeriods(LagPeriods, dt)
    /\ \E x \in [1 .. NSamples -> 0 .. MaxAmp] : \E k \in 1 .. MaxDelay :
          /\ inputs = [st |-> x, st2 |-> Delayed(x, k)]
          /\ \E r \in {CorrelateRun([st |-> x, st2 |-> Delayed(x, k),
                                     st_temp |-> <<>>, st_temp2 |-> <<>>])} :
                /\ traces = r.traces
                /\ cc_data = r.out
    /\ todo = {}
    /\ failedAt = <<>>
    /\ warned = {}
    /\ pickedArrival = ZeroPicks
    /\ pickedArrivalAligned = ZeroAligned
    /\ dist_km_src12 \in (-Vmax) .. (Vmax * nsamples * MaxDt + 1)
    /\ atshift = LagAxis(nsamples, dt)
    /\ V_phase = <<>>
    /\ phase_vel = [i \in AllPeriods |-> ZeroFloat]
    /\ IdlePick /\ IdleAux

\* "Plot only possible values": id_realistic, atshift, cc_data, V_phase
LagFilter ==
    /\ pc = "lagfilter"
    /\ LET id_realistic ==
               Ascending({j \in DOMAIN atshift : Admissible(atshift[j], dist_km_src12)})
           kept == TakeIdx(atshift, id_realistic)
       IN  /\ atshift' = kept
           /\ cc_data' = [i \in DOMAIN cc_data |-> TakeIdx(cc_data[i], id_realistic)]
           /\ V_phase' = [j \in DOMAIN kept |-> <<dist_km_src12, kept[j]>>]
    /\ pc' = "lagdone"
    /\ UNCHANGED <<dt, ti, raised, pickVars, auxVars, dist_km_src12, phase_vel,
                   traces, inputs, myPeriods, todo, failedAt, warned, pickedArrival,
                   pickedArrivalAligned>>

NextLag == LagFilter
SpecLag == InitLag /\ [][NextLag]_vars

\* ------------------------------------------------------------- correlate, both ways round
InitCorr ==
    /\ pc = "corr"
    /\ dt = 1
    /\ ti = TimeAxis(NSamples, dt)
    /\ raised = "none"
    /\ \E a \in [1 .. NSamples -> 0 .. MaxAmp] : \E b \in [1 .. NSamples -> 0 .. MaxAmp] :
          /\ inputs = [st |-> a, st2 |-> b]
          /\ traces = [st |-> a, st2 |-> b, st_temp |-> <<>>, st_temp2 |-> <<>>]
    /\ myPeriods = <<>> /\ todo = {} /\ failedAt = <<>> /\ warned = {}
    /\ pickedArrival = <<>> /\ pickedArrivalAligned = <<>> /\ cc_data = <<>>
    /\ cc = [ab |-> <<>>, ba |-> <<>>]
    /\ periodsWT = <<>> /\ wave = <<>>
    /\ IdlePick /\ IdleLag

\* cc = correlate(st_temp2[iZRT], st_temp[iZRT], nsamples), as the notebook calls it
CorrelateAB ==
    /\ pc = "corr"
    /\ cc.ab = <<>>
    /\ cc' = [cc EXCEPT !.ab = correlate(traces.st2, traces.st, nsamples)]
    /\ UNCHANGED <<pc, dt, ti, raised, pickVars, loopVars, lagVars, periodsWT, wave>>

\* the same call with the two traces exchanged
CorrelateBA ==
    /\ pc = "corr"
    /\ cc.ba = <<>>
    /\ cc' = [cc EXCEPT !.ba = correlate(traces.st, traces.st2, nsamples)]
    /\ UNCHANGED <<pc, dt, ti, raised, pickVars, loopVars, lagVars, periodsWT, wave>>

NextCorr == CorrelateAB \/ CorrelateBA
SpecCorr == InitCorr /\ [][NextCorr]_vars

\* ------------------------------------------------------------- compute_wavelet_power_spectrum
J_times_dj == octaves \div sub_octaves

\* J = 8.0 / dj (exactly 96.0 in double precision)
J == octaves * sub_octaves

RECURSIVE Pow2(_)
Pow2(k) == IF k = 0 THEN 1 ELSE 2 * Pow2(k - 1)

\* the scales of wavelet.cwt: s0 * 2^(j * dj) for j = 0..J, kept as s0 = 2 * dt
\* and the exponent j in twelfths of an octave
cwtScales(d) == [k \in 1 .. (J + 1) |-> [s0 |-> 2 * d, twelfths |-> k - 1]]

\* One wavelet coefficient at scale k and time t: the comb of the octave's width
\* stands for the Morlet response. The result of wavelet.cwt has one row per
\* scale and, trimmed back from the padded length, one column per sample.
WaveletCoef(x, k, t) == Comb(x, Pow2((k - 1) \div sub_octaves))[t]

\* a value w / std of the normalized data is kept as <<w, n^3 * std^2>>; a power
\* as <<w^2, n^3 * std^2>>, its division by the row's scale left with the row
compute_wavelet_power_spectrum(mydata, d) ==
    LET var == SumSq(Demean(mydata))
        scales == cwtScales(d)
        w == [k \in DOMAIN scales |-> [t \in DOMAIN mydata |-> <<WaveletCoef(mydata, k, t), var>>]]
    IN  [period |-> scales,
         power |-> [k \in DOMAIN w |-> [t \in DOMAIN w[k] |-> <<w[k][t][1] * w[k][t][1], var>>]],
         wave |-> w]

TracesUpTo(n) == UNION {[1 .. m -> (-MaxAmp) .. MaxAmp] : m \in 1 .. n}

InitCwt ==
    /\ pc = "cwt"
    /\ dt \in 1 .. MaxDt
    /\ \E x \in TracesUpTo(NSamples) :
          /\ inputs = [st |-> x, st2 |-> x]
          /\ traces = [st |-> x, st2 |-> x, st_temp |-> <<>>, st_temp2 |-> <<>>]
    /\ ti = TimeAxis(Len(traces.st), dt)
    /\ raised = "none"
    /\ myPeriods = <<>> /\ todo = {} /\ failedAt = <<>> /\ warned = {}
    /\ pickedArrival = <<>> /\ pickedArrivalAligned = <<>> /\ cc_data = <<>>
    /\ IdlePick /\ IdleLag /\ IdleAux

\* periodsWT, power, wave, coi = compute_wavelet_power_spectrum(st[iZRT].data, dt)
ComputeWavelet ==
    /\ pc = "cwt"
    /\ LET r == compute_wavelet_power_spectrum(traces.st, dt)
       IN  /\ periodsWT' = r.period
           /\ power' = r.power
           /\ wave' = r.wave
    /\ pc' = "cwtdone"
    /\ UNCHANGED <<dt, ti, raised, tmin, tmax, idmaxs, pickedArrivalWavelet, loopVars,
                   lagVars, cc>>

NextCwt == ComputeWavelet
SpecCwt == InitCwt /\ [][NextCwt]_vars

\* ------------------------------------------------------------- claims on pickArrivalWavelet
PickReturned == pc = "picked"
PickFinished == pc \in {"picked", "failed"}
InWindow(t) == tmin <= t /\ t <= tmax

\* C2 (as stated): whenever pickArrivalWavelet returns, every row's picked
\* arrival time lies within the search window [tmin, tmax].
C2_PickInWindow ==
    PickReturned =>
        \A i \in DOMAIN pickedArrivalWavelet : InWindow(pickedArrivalWavelet[i])

\* the window [tmin, tmax] holds no sample of the time axis
WindowExcludesAll == \A k \in DOMAIN ti : ~InWindow(ti[k])

\* the three shapes of empty window the claim lists
DegenerateWindow ==
    \/ tmin >= tmax
    \/ tmin > ti[Len(ti)]
    \/ tmax < ti[1]

\* C4 (as stated): when the window excludes every sample, picking fails with a
\* PickWindowError instead of returning a pick.
C4_PickWindowError ==
    (PickFinished /\ WindowExcludesAll) => (pc = "failed" /\ raised = "PickWindowError")

\* C4 (amended): when tmin >= tmax, or both lie beyond the last sample, or both
\* lie before the first sample, picking fails with numpy's ValueError (argmax of
\* an empty slice) and returns no pick; ValueError is the only failure there is.
C4_EmptySliceValueError ==
    PickFinished =>
        /\ DegenerateWindow =>
              (pc = "failed" /\ raised = "ValueError" /\ pickedArrivalWavelet = <<>>)
        /\ pc = "failed" => raised = "ValueError"

\* C4's case: a proper window (tmin < tmax) beyond the last sample has failed
C4_Witness == pc = "failed" /\ tmin < tmax /\ tmin > ti[Len(ti)]

\* C10 (as stated): in every row, no sample whose time lies in [tmin, tmax] has
\* power strictly greater than the power at the picked sample.
C10_PickIsWindowMax ==
    PickReturned =>
        \A i \in DOMAIN power : \A k \in DOMAIN ti :
            InWindow(ti[k]) => power[i][k] <= power[i][idmaxs[i]]

\* ------------------------------------------------------------- claims on the filtering loops
\* C3: filtering never changes the input traces: in every state of the three
\* loops the data of st and st2 equal their values before the loops.
C3_InputsNeverChanged ==
    /\ traces.st = inputs.st
    /\ traces.st2 = inputs.st2

\* C3's case: all three loops have run and the filter changed both copies
C3_Witness ==
    /\ pc = "done"
    /\ traces.st_temp # traces.st
    /\ traces.st_temp2 # traces.st2

RunFinished == pc \in {"done", "aborted"}

\* freqmax = (1 + xf)/T strictly above Nyquist
BandExceedsNyquist(T, d, xf) == 2 * d * (100 + xf) > 100 * T

\* C5 (as stated): a period whose band exceeds Nyquist is reported and skipped
\* (its results stay unwritten) and the run still finishes every other period.
C5_InvalidBandSkipped ==
    RunFinished =>
        /\ pc = "done"
        /\ \A i \in AllPeriods :
              BandExceedsNyquist(myPeriods[i], dt, x_envelope) =>
                  (i \in warned /\ pickedArrival[i] = 0 /\ cc_data[i] = ZeroRow)

\* the loop that was running when the run ended
EndedIn == IF pc = "aborted" THEN failedAt[1] ELSE pc
BandOf(loop) == IF loop = "correlate" THEN x_filter ELSE x_envelope

\* C5 (amended): no period is skipped. A filter whose low corner is above
\* Nyquist raises ValueError, which nothing catches: the run ends there, that
\* period and every period not yet reached stay unprocessed (zeros), as do the
\* later loops. A band whose high corner alone reaches Nyquist only warns and
\* the period is processed; a run that finishes had no low corner above Nyquist.
C5_FilterErrorIsFatal ==
    /\ pc = "aborted" =>
          /\ raised = "ValueError"
          /\ failedAt[2] \in todo
          /\ LowAboveNyquist(myPeriods[failedAt[2]], dt, BandOf(failedAt[1]))
          /\ EndedIn = "envelope" =>
                /\ \A j \in todo : pickedArrival[j] = 0
                /\ pickedArrivalAligned = ZeroAligned
                /\ cc_data = ZeroCC
          /\ EndedIn = "align" =>
                /\ \A j \in todo : pickedArrivalAligned[j] = <<0, 0>>
                /\ cc_data = ZeroCC
          /\ EndedIn = "correlate" => \A j \in todo : cc_data[j] = ZeroRow
    /\ pc = "done" =>
          /\ raised = "none"
          /\ \A i \in AllPeriods :
                /\ ~LowAboveNyquist(myPeriods[i], dt, x_envelope)
                /\ BandExceedsNyquist(myPeriods[i], dt, x_envelope) => i \in warned

\* C5's case: the run was ended by a filter error at a later period, after an
\* earlier period was processed, or with a valid period left unprocessed
C5_Witness ==
    /\ pc = "aborted"
    /\ \E j \in todo :
          /\ j # failedAt[2]
          /\ ~BandExceedsNyquist(myPeriods[j], dt, x_envelope)

C5_WitnessLater ==
    /\ pc = "aborted"
    /\ 1 \notin todo

Stage(loop) ==
    CASE loop = "envelope" -> 1
      [] loop = "align" -> 2
      [] loop = "correlate" -> 3
      [] OTHER -> 4

\* period i has been processed by the named loop
ProcessedIn(loop, i) ==
    \/ Stage(EndedIn) > Stage(loop)
    \/ EndedIn = loop /\ i \notin todo

\* C8: whatever the order in which each loop takes its periods, every entry
\* written so far equals the entry the index-order run computes from the input
\* traces, and every entry not yet reached is still zero: the arrays of a
\* finished run are the same for every order.
C8_OrderIndependent ==
    \E e \in {EnvelopeRun(InitialStore)} :
        /\ \A i \in AllPeriods :
              pickedArrival[i] = IF ProcessedIn("envelope", i) THEN e.out[i] ELSE 0
        /\ \E a \in {AlignRun(e.traces)} :
              /\ \A i \in AllPeriods :
                    pickedArrivalAligned[i] =
                        IF ProcessedIn("align", i) THEN a.out[i] ELSE <<0, 0>>
              /\ IF \E i \in AllPeriods : ProcessedIn("correlate", i)
                 THEN \E c \in {CorrelateRun(a.traces)} :
                          \A i \in AllPeriods :
                              cc_data[i] =
                                  IF ProcessedIn("correlate", i) THEN c.out[i] ELSE ZeroRow
                 ELSE cc_data = ZeroCC

\* C8's case: a run that took the last period before the first one has finished
\* the cross-correlation of the last period, with a non-zero correlation row
C8_Witness ==
    /\ pc = "correlate"
    /\ 1 \in todo
    /\ NPeriods \notin todo
    /\ cc_data[NPeriods] # ZeroRow

\* ------------------------------------------------------------- claims on the lag filter
LagFiltered == pc = "lagdone"
OriginalLags == Range(LagAxis(nsamples, dt))

\* C1: after the filtering step every lag kept in atshift is strictly greater
\* than D/Vmax (none is less than or equal to it), and every lag of the
\* original symmetric axis that is strictly greater than D/Vmax is kept.
C1_KeptLagsAboveBound ==
    LagFiltered =>
        /\ \A j \in DOMAIN atshift : atshift[j] * Vmax > dist_km_src12
        /\ \A j \in DOMAIN atshift : ~(atshift[j] * Vmax <= dist_km_src12)
        /\ \A lag \in OriginalLags :
              lag * Vmax > dist_km_src12 => lag \in Range(atshift)

\* C1's case: D > 0, a lag exactly at D/Vmax was on the axis and has been
\* dropped, and some but not all lags are kept
C1_Witness ==
    /\ LagFiltered
    /\ dist_km_src12 > 0
    /\ \E lag \in OriginalLags : lag * Vmax = dist_km_src12 /\ lag \notin Range(atshift)
    /\ atshift # <<>>

AllLagsRemoved == \A lag \in OriginalLags : ~(lag * Vmax > dist_km_src12)

\* C6 (as stated): when the filter removes every lag, the phase velocity of
\* each period is a missing value (and nothing crashed).
C6_MissingPhaseVelocity ==
    (LagFiltered /\ AllLagsRemoved) =>
        /\ raised = "none"
        /\ \A i \in DOMAIN phase_vel : IsMissing(phase_vel[i])

\* C6 (amended): when the filter removes every lag, the filtering step raises
\* nothing and leaves atshift, V_phase and every row of cc_data empty; no
\* phase velocity per period is produced: phase_vel keeps its initial zeros.
C6_EmptyNotMissing ==
    (LagFiltered /\ AllLagsRemoved) =>
        /\ raised = "none"
        /\ atshift = <<>>
        /\ V_phase = <<>>
        /\ \A i \in DOMAIN cc_data : cc_data[i] = <<>>
        /\ DOMAIN cc_data = AllPeriods
        /\ \A i \in DOMAIN phase_vel : phase_vel[i] = ZeroFloat

\* C6's case: a positive distance too large for every lag of the axis
C6_Witness ==
    /\ LagFiltered
    /\ AllLagsRemoved
    /\ dist_km_src12 = Vmax * nsamples * dt

\* the correlation array before the lag filter: one row per period, one column
\* per lag of the symmetric window, column k holding the lag (k - nsamples - 1) * dt
UnfilteredCC ==
    CorrelateRun([st |-> inputs.st, st2 |-> inputs.st2,
                  st_temp |-> <<>>, st_temp2 |-> <<>>]).out

\* C11: after the lag filter with a positive inter-station distance, atshift,
\* V_phase and every row of cc_data have the same length; column j of cc_data
\* is the correlation computed at the lag atshift[j] and V_phase[j] is the
\* quotient dist_km_src12 / atshift[j]; no kept lag is zero; and every phase
\* velocity is strictly greater than 0 and strictly less than Vmax.
C11_AlignedPositiveBelowVmax ==
    (LagFiltered /\ dist_km_src12 > 0 /\ Vmax > 0) =>
        \E orig \in {UnfilteredCC} :
            /\ DOMAIN V_phase = DOMAIN atshift
            /\ DOMAIN cc_data = AllPeriods
            /\ \A i \in DOMAIN cc_data : DOMAIN cc_data[i] = DOMAIN atshift
            /\ \A i \in DOMAIN cc_data : \A j \in DOMAIN atshift :
                  \E k \in DOMAIN orig[i] :
                      /\ (k - nsamples - 1) * dt = atshift[j]
                      /\ cc_data[i][j] = orig[i][k]
            /\ \A j \in DOMAIN atshift :
                  /\ atshift[j] # 0
                  /\ V_phase[j] = <<dist_km_src12, atshift[j]>>
                  /\ V_phase[j][1] * V_phase[j][2] > 0
                  /\ V_phase[j][2] > 0 => V_phase[j][1] < Vmax * V_phase[j][2]
                  /\ V_phase[j][2] < 0 => V_phase[j][1] > Vmax * V_phase[j][2]

\* C11's case: a positive distance, the zero lag and the negative lags dropped
\* and at least two lags kept, with a row of cc_data that differs between two
\* kept columns
C11_Witness ==
    /\ LagFiltered
    /\ dist_km_src12 > 0
    /\ Len(atshift) >= 2
    /\ \A lag \in OriginalLags : lag <= 0 => lag \notin Range(atshift)
    /\ \E i \in DOMAIN cc_data : cc_data[i][1] # cc_data[i][2]

\* ------------------------------------------------------------- claims on correlate
BothCorrelated == cc # <<>> /\ cc.ab # <<>> /\ cc.ba # <<>>

\* C9: for every lag L of the window -nsamples..nsamples, the correlation of A
\* against B at lag L equals the correlation of B against A at lag -L.
C9_CorrelateSymmetric ==
    BothCorrelated =>
        \A L \in (-nsamples) .. nsamples :
            cc.ab[L + nsamples + 1] = cc.ba[-L + nsamples + 1]

\* C9's case: both correlations are there, not all zero, and the correlation
\* itself is not an even function of the lag
C9_Witness ==
    /\ BothCorrelated
    /\ \E L \in 1 .. nsamples :
          /\ cc.ab[L + nsamples + 1][1] # 0
          /\ cc.ab[L + nsamples + 1] # cc.ab[-L + nsamples + 1]

\* ------------------------------------------------------------- claims on the wavelet spectrum
\* C7: the power spectrum has one column per sample of the trace and, with
\* dj = 1/12 and J = 8/dj, 97 period rows; the period array is as long as the
\* spectrum's period axis.
C7_SpectrumShape ==
    pc = "cwtdone" =>
        /\ Len(power) = 97
        /\ \A k \in DOMAIN power : Len(power[k]) = Len(traces.st)
        /\ Len(periodsWT) = Len(power)

\* C7's case: the spectrum of a trace of full length with some power in it
C7_Witness ==
    /\ pc = "cwtdone"
    /\ Len(traces.st) = NSamples
    /\ \E k \in DOMAIN power : \E t \in DOMAIN power[k] : power[k][t][1] > 0

====
